---- MODULE Spec2Model ----
(***************************************************************************)
(* Model of the Sudoku board of src/src/soduko.rs: CellState, BoardState,  *)
(* the validity check, the cell setters and the backtracking solver.       *)
(* The recursion of BoardState::solve is modelled with an explicit call    *)
(* stack, one frame per activation, each frame owning its copy of the      *)
(* board (BoardState is Copy and solve takes self by value).               *)
(* Cells are written through From<u8>, set, set_pos and solve only: the    *)
(* DerefMut impls of CellState and BoardState have no writing call site in *)
(* the source and are not modelled.                                        *)
(***************************************************************************)
EXTENDS Integers, Sequences, FiniteSets, TLC

\* ------------------------------------------------------------------ bounds
\* the initial boards have the first 0..MaxCleared cells of ClearOrder cleared
MaxCleared == 7
\* how many set / set_pos calls the user makes before solving
MaxEdits == 1
\* raw u8 digits handed to From<u8> range over 0..MaxRaw
MaxRaw == 11

\* ------------------------------------------------------- program constants
\* side of the board: type Soduko9 = [CellState; 9]; BoardState([Soduko9; 9])
N == 9
\* side of a box: rows = row..(row + 3), take(3)
BoxN == 3
\* largest digit: v @ 1..=9, (1..=9) in unique and in solve
MaxDigit == 9

Idx == 0 .. (N - 1)
Positions == 0 .. (N * N - 1)
Digits == 1 .. MaxDigit

\* ------------------------------------------------------------ Option<T>
None == << >>
Some(v) == << v >>
IsSome(o) == o # None
Unwrap(o) == o[1]

\* ------------------------------------------------------------ CellState
\* impl From<u8> for CellState: 0 is empty, 1..=9 a digit, 10.. panics.
\* The outcome is a record: either the panic, or the cell that was built.
\* faulty variant: a value above 9 is clamped to 9 instead of panicking
From_u8_clamp(value) ==
    IF value = 0 THEN [panic |-> FALSE, cell |-> None]
    ELSE IF value \in Digits THEN [panic |-> FALSE, cell |-> Some(value)]
    ELSE [panic |-> FALSE, cell |-> Some(MaxDigit)]

\* the conversion of the source
From_u8(value) ==
    IF value = 0 THEN [panic |-> FALSE, cell |-> None]
    ELSE IF value \in Digits THEN [panic |-> FALSE, cell |-> Some(value)]
    ELSE [panic |-> TRUE, cell |-> None]

\* ------------------------------------------------------------ BoardState
\* #[derive(Default)]: every cell is CellState(None)
Default == [row \in Idx |-> [col \in Idx |-> None]]

\* faulty variant: nothing is ever a duplicate
unique_all(data) == TRUE

\* faulty variant: count > 0, so that any digit present counts as a duplicate
unique_strict(data) ==
    \A n \in Digits : Cardinality({i \in DOMAIN data : data[i] = Some(n)}) < 1

\* fn unique(data): no digit 1..=9 occurs more than once in data
unique(data) ==
    \A n \in Digits :
        ~(Cardinality({i \in DOMAIN data : data[i] = Some(n)}) > 1)

\* fn square(row, col): the 3 rows from row, of each the 3 cells from col
square(b, row, col) ==
    [k \in Idx |-> b[row + (k \div BoxN)][col + (k % BoxN)]]

check_boxes(b) ==
    \A row \in 0 .. (BoxN - 1) : \A col \in 0 .. (BoxN - 1) :
        unique(square(b, row * BoxN, col * BoxN))

column(b, col) == [row \in Idx |-> b[row][col]]

check_columns(b) == \A col \in Idx : unique(column(b, col))

check_rows(b) == \A i \in Idx : unique(b[i])

\* faulty variant: the boxes are not checked
check_rows_columns(b) == check_rows(b) /\ check_columns(b)

check(b) == check_rows(b) /\ check_columns(b) /\ check_boxes(b)

\* self.0.iter().flatten(): the cell at row-major index idx
flat(b, idx) == b[idx \div N][idx % N]

\* fn next_cell: index of the first empty cell in row-major order
next_cell(b) ==
    LET empty == {idx \in Positions : flat(b, idx) = None}
    IN  IF empty = {} THEN None
        ELSE Some(CHOOSE i \in empty : \A j \in empty : i <= j)

\* faulty variant: the column index is dropped and the whole row written
set_row_only(b, row, col, n) == [b EXCEPT ![row] = [c \in Idx |-> n]]

\* pub fn set(&mut self, row, col, n)
set(b, row, col, n) == [b EXCEPT ![row][col] = n]

\* faulty variant: row and column are taken the wrong way round
set_pos_swapped(b, pos, n) ==
    LET row == pos % N
        col == pos \div N
    IN  [b EXCEPT ![row][col] = n]

\* pub fn set_pos(&mut self, pos, n)
set_pos(b, pos, n) ==
    LET row == pos \div N
        col == pos % N
    IN  [b EXCEPT ![row][col] = n]

\* ------------------------------------------------------------ input boards
\* a solved grid, row by row; the boards that are solved are this grid with
\* a prefix of ClearOrder cleared, and the empty board
SeedRows ==
    << <<5, 3, 4, 6, 7, 8, 9, 1, 2>>,
       <<6, 7, 2, 1, 9, 5, 3, 4, 8>>,
       <<1, 9, 8, 3, 4, 2, 5, 6, 7>>,
       <<8, 5, 9, 7, 6, 1, 4, 2, 3>>,
       <<4, 2, 6, 8, 5, 3, 7, 9, 1>>,
       <<7, 1, 3, 9, 2, 4, 8, 5, 6>>,
       <<9, 6, 1, 5, 3, 7, 2, 8, 4>>,
       <<2, 8, 7, 4, 1, 9, 6, 3, 5>>,
       <<3, 4, 5, 2, 8, 6, 1, 7, 9>> >>

Seed == [row \in Idx |-> [col \in Idx |-> Some(SeedRows[row + 1][col + 1])]]

\* row-major indices cleared in turn: (0,0), (0,2), (8,2), then the four
\* corners (0,3), (0,4), (3,3), (3,4) of a rectangle holding 6 7 / 7 6, whose
\* clearing leaves two completions, then (4,4), (8,8), (1,1)
ClearOrder == <<0, 2, 74, 3, 4, 30, 31, 40, 80, 10>>

Cleared(k) ==
    [row \in Idx |-> [col \in Idx |->
        IF \E i \in 1 .. k : ClearOrder[i] = row * N + col
        THEN None ELSE Seed[row][col]]]

\* the cells the user edits: set(row, col, _) and set_pos(pos, _)
EditRows == {0, 8}
EditCols == {2}
EditPos == {0, 74}
RawDigits == 0 .. MaxRaw

\* -------------------------------------------------------------------- state
VARIABLES
    board,     \* the caller's BoardState
    mode,      \* "idle", "running" (inside solve), "done", "panic"
    stack,     \* activations of solve, innermost last
    ret,       \* value returned by the activation that returned last
    result,    \* Option<BoardState> returned by the outermost solve
    answer,    \* bool returned by solvable
    lastOp,    \* the public operation called last, with its arguments
    edits,     \* number of set / set_pos calls made
    fresh,     \* board is a board returned by solve, not edited since
    orig,      \* history: the caller's board when solve / solvable was called
    calls,     \* history: activations of solve since the outermost call
    placed     \* history: set_pos calls made by solve since the outermost call

vars == <<board, mode, stack, ret, result, answer, lastOp, edits, fresh,
          orig, calls, placed>>

Op(name, row, col, pos, raw) ==
    [op |-> name, row |-> row, col |-> col, pos |-> pos, raw |-> raw]

\* number of empty cells of a board
NumEmpty(b) == Cardinality({idx \in Positions : flat(b, idx) = None})

\* a new activation of solve owning the board it was given; empties_in is
\* history: how many empty cells that board had
Frame(b) ==
    [self |-> b, next_cell |-> None, number |-> 0, pc |-> "enter",
     empties_in |-> NumEmpty(b)]

Init ==
    /\ \/ /\ \E k \in 0 .. MaxCleared : board = Cleared(k)
          /\ edits = 0
       \/ /\ board = Default
          /\ edits = MaxEdits
    /\ mode = "idle"
    /\ stack = << >>
    /\ ret = None
    /\ result = None
    /\ answer = FALSE
    /\ lastOp = Op("new", 0, 0, 0, 0)
    /\ fresh = FALSE
    /\ orig = board
    /\ calls = 0
    /\ placed = 0

\* ------------------------------------------------------------ set, set_pos
\* board.set(row, col, raw.into()): the conversion runs first and may panic
Set(row, col, raw) ==
    /\ mode = "idle"
    /\ edits < MaxEdits
    /\ LET n == From_u8(raw)
       IN  IF n.panic
           THEN /\ mode' = "panic"
                /\ board' = board
           ELSE /\ mode' = mode
                /\ board' = set(board, row, col, n.cell)
    /\ lastOp' = Op("set", row, col, row * N + col, raw)
    /\ edits' = edits + 1
    /\ fresh' = FALSE
    /\ orig' = board
    /\ UNCHANGED <<stack, ret, result, answer, calls, placed>>

SetPos(pos, raw) ==
    /\ mode = "idle"
    /\ edits < MaxEdits
    /\ LET n == From_u8(raw)
       IN  IF n.panic
           THEN /\ mode' = "panic"
                /\ board' = board
           ELSE /\ mode' = mode
                /\ board' = set_pos(board, pos, n.cell)
    /\ lastOp' = Op("set_pos", pos \div N, pos % N, pos, raw)
    /\ edits' = edits + 1
    /\ fresh' = FALSE
    /\ orig' = board
    /\ UNCHANGED <<stack, ret, result, answer, calls, placed>>

\* ------------------------------------------------------- solve, solvable
\* pub fn solve(mut self): the receiver is moved (copied) into the activation
CallSolve ==
    /\ mode = "idle"
    /\ mode' = "running"
    /\ stack' = << Frame(board) >>
    /\ ret' = None
    /\ result' = None
    /\ lastOp' = Op("solve", 0, 0, 0, 0)
    /\ orig' = board
    /\ calls' = 1
    /\ placed' = 0
    /\ UNCHANGED <<board, answer, edits, fresh>>

\* pub fn solvable(&self): self.solve() on a copy of *self
CallSolvable ==
    /\ mode = "idle"
    /\ mode' = "running"
    /\ stack' = << Frame(board) >>
    /\ ret' = None
    /\ result' = None
    /\ lastOp' = Op("solvable", 0, 0, 0, 0)
    /\ orig' = board
    /\ calls' = 1
    /\ placed' = 0
    /\ UNCHANGED <<board, answer, edits, fresh>>

Top == stack[Len(stack)]
Depth == Len(stack)

\* faulty variant: caller and callee share one board (solve(&mut self))
Retained_shared(caller, callee) == callee

\* what the caller's board is once the activation it called has returned:
\* the callee worked on its own copy, so the caller's board is what it was

Retained(caller, callee) == caller

\* the innermost activation returns value: to the activation below it, or,
\* for the outermost one, to the caller of solve / solvable
Return(value) ==
    /\ ret' = value
    /\ IF Depth > 1
       THEN /\ stack' = [SubSeq(stack, 1, Depth - 1) EXCEPT
                            ![Depth - 1].self =
                                Retained(stack[Depth - 1].self, Top.self)]
            /\ UNCHANGED <<board, mode, result, answer>>
       ELSE /\ stack' = << >>
            /\ mode' = "done"
            /\ board' = Retained(board, Top.self)
            /\ IF lastOp.op = "solve"
               THEN result' = value /\ answer' = answer
               ELSE result' = None /\ answer' = IsSome(value)
    /\ UNCHANGED <<lastOp, edits, fresh, orig, calls, placed>>

\* if !self.check() { return None; }
SolveInvalid ==
    /\ mode = "running"
    /\ Top.pc = "enter"
    /\ ~check(Top.self)
    /\ Return(None)

\* let Some(next_cell) = self.next_cell() else { return Some(self); };
SolveComplete ==
    /\ mode = "running"
    /\ Top.pc = "enter"
    /\ check(Top.self)
    /\ next_cell(Top.self) = None
    /\ Return(Some(Top.self))

\* ... otherwise the loop over 1..=9 starts
SolveBranch ==
    /\ mode = "running"
    /\ Top.pc = "enter"
    /\ check(Top.self)
    /\ next_cell(Top.self) # None
    /\ stack' = [stack EXCEPT ![Depth].next_cell = next_cell(Top.self),
                              ![Depth].number = 1,
                              ![Depth].pc = "loop"]
    /\ UNCHANGED <<board, mode, ret, result, answer, lastOp, edits, fresh,
                   orig, calls, placed>>

\* faulty variant: the numbers are tried from 9 down to 1
nth_number_desc(k) == MaxDigit + 1 - k

\* for number in (1..=9): the number the loop holds in its k-th round
nth_number(k) == k

\* self.set_pos(next_cell, number.into()); self.solve()
SolveTry ==
    /\ mode = "running"
    /\ Top.pc = "loop"
    /\ Top.number <= MaxDigit
    /\ LET n == From_u8(nth_number(Top.number))
           b == set_pos(Top.self, Unwrap(Top.next_cell), n.cell)
       IN  stack' = Append([stack EXCEPT ![Depth].self = b,
                                         ![Depth].pc = "wait"],
                           Frame(b))
    /\ ret' = None
    /\ calls' = calls + 1
    /\ placed' = placed + 1
    /\ UNCHANGED <<board, mode, result, answer, lastOp, edits, fresh, orig>>

\* if let Some(solution) = self.solve() { return Some(solution); }
SolveFound ==
    /\ mode = "running"
    /\ Top.pc = "wait"
    /\ IsSome(ret)
    /\ Return(ret)

\* the recursive call returned None: next number
SolveNext ==
    /\ mode = "running"
    /\ Top.pc = "wait"
    /\ ~IsSome(ret)
    /\ stack' = [stack EXCEPT ![Depth].number = Top.number + 1,
                              ![Depth].pc = "loop"]
    /\ UNCHANGED <<board, mode, ret, result, answer, lastOp, edits, fresh,
                   orig, calls, placed>>

\* the loop ran out of numbers: None
SolveExhausted ==
    /\ mode = "running"
    /\ Top.pc = "loop"
    /\ Top.number > MaxDigit
    /\ Return(None)

\* the caller keeps the solution as its board (board = board.solve().unwrap())
Adopt ==
    /\ mode = "done"
    /\ lastOp.op = "solve"
    /\ IsSome(result)
    /\ board' = Unwrap(result)
    /\ mode' = "idle"
    /\ fresh' = TRUE
    /\ lastOp' = Op("adopt", 0, 0, 0, 0)
    /\ result' = None
    /\ ret' = None
    /\ orig' = board
    /\ calls' = 0
    /\ placed' = 0
    /\ UNCHANGED <<stack, answer, edits>>

SolveStep ==
    \/ SolveInvalid
    \/ SolveComplete
    \/ SolveBranch
    \/ SolveTry
    \/ SolveFound
    \/ SolveNext
    \/ SolveExhausted

Next ==
    \/ \E row \in EditRows : \E col \in EditCols : \E raw \in RawDigits :
           Set(row, col, raw)
    \/ \E pos \in EditPos : \E raw \in RawDigits : SetPos(pos, raw)
    \/ CallSolve
    \/ CallSolvable
    \/ SolveStep
    \/ Adopt

Spec == Init /\ [][Next]_vars

\* solve is a plain recursive computation: a started call keeps running
FairSpec == Spec /\ WF_vars(SolveStep)

\* ------------------------------------------------- what the claims speak of
\* the cell at row-major index p of board b
Cell(b, p) == b[p \div N][p % N]

Full(b) == \A p \in Positions : Cell(b, p) # None

\* two cells lie in one row, one column or one 3x3 box
SameUnit(p, q) ==
    \/ p \div N = q \div N
    \/ p % N = q % N
    \/ /\ (p \div N) \div BoxN = (q \div N) \div BoxN
       /\ (p % N) \div BoxN = (q % N) \div BoxN

\* the other cells of the units of each cell
Peers == [p \in Positions |-> {q \in Positions : q # p /\ SameUnit(p, q)}]

\* no row, column or box holds the same digit twice
NoDuplicate(b) ==
    \A p \in Positions :
        Cell(b, p) # None => \A q \in Peers[p] : Cell(b, q) # Cell(b, p)

\* s keeps every digit of b
Extends(s, b) ==
    \A p \in Positions : Cell(b, p) # None => Cell(s, p) = Cell(b, p)

\* digits that no cell sharing a unit with p holds
Candidates(b, p) == {d \in Digits : \A q \in Peers[p] : Cell(b, q) # Some(d)}

\* all boards got from b by giving each cell of cells a digit that no cell
\* of its units holds when it is given
RECURSIVE Fills(_, _)
Fills(b, cells) ==
    IF cells = {} THEN {b}
    ELSE LET p == CHOOSE x \in cells : TRUE
         IN  UNION {Fills([b EXCEPT ![p \div N][p % N] = Some(d)],
                          cells \ {p}) : d \in Candidates(b, p)}

\* the full boards without duplicate that keep the digits of b
Completions(b) ==
    IF NoDuplicate(b)
    THEN {s \in Fills(b, {p \in Positions : Cell(b, p) = None}) :
              Full(s) /\ NoDuplicate(s) /\ Extends(s, b)}
    ELSE {}

\* boards for which Completions is enumerated
Enumerable(b) == NumEmpty(b) <= MaxCleared + MaxEdits

\* whether the outermost call reported a solution
Found == IF lastOp.op = "solve" THEN IsSome(result) ELSE answer

Finished == mode = "done" /\ lastOp.op \in {"solve", "solvable"}

\* -------------------------------------------------------------------- C1
\* C1: a board S returned by solve(B) has no empty cell, is valid (check and
\* no duplicate in any unit) and keeps every digit of B; the same holds of
\* the board any activation returns, so no partial board is ever returned.
C1_SolutionSound ==
    /\ (mode = "done" /\ lastOp.op = "solve" /\ IsSome(result)) =>
           /\ Full(Unwrap(result))
           /\ check(Unwrap(result))
           /\ NoDuplicate(Unwrap(result))
           /\ Extends(Unwrap(result), orig)
    /\ (mode = "running" /\ IsSome(ret)) =>
           /\ Full(Unwrap(ret))
           /\ NoDuplicate(Unwrap(ret))
           /\ Extends(Unwrap(ret), orig)

C1_Witness ==
    /\ mode = "done" /\ lastOp.op = "solve" /\ IsSome(result)
    /\ NumEmpty(orig) >= 3
    /\ orig # Default

\* -------------------------------------------------------------------- C2
\* C2: solve(B) returns a board exactly when some assignment of digits to
\* the empty cells of B gives a full board without duplicate; solvable
\* answers the same; the empty board is solved.  The completions are
\* enumerated for boards with at most MaxCleared + MaxEdits empty cells; of
\* the others (the empty board) a completion is known: the seed grid.
C2_Complete ==
    Finished =>
        /\ Enumerable(orig) => (Found <=> Completions(orig) # {})
        /\ (Full(Seed) /\ NoDuplicate(Seed) /\ Extends(Seed, orig)) => Found
        /\ orig = Default => Found

\* a valid board with empty cells that has no completion was searched
C2_Witness ==
    /\ Finished
    /\ ~Found
    /\ NoDuplicate(orig)
    /\ NumEmpty(orig) > 0
    /\ calls > 1

\* -------------------------------------------------------------------- C3
\* C3: check(B) is true exactly when no row, column or box of B holds the
\* same digit twice, for the caller's board and for every board an
\* activation of solve checks; the empty board is valid.
C3_CheckIffNoDuplicate ==
    /\ mode = "idle" => (check(board) <=> NoDuplicate(board))
    /\ (mode = "running" /\ Top.pc = "enter") =>
           (check(Top.self) <=> NoDuplicate(Top.self))
    /\ check(Default)

\* a partially filled board whose only duplicate is inside a box
C3_Witness ==
    /\ mode = "running"
    /\ Top.pc = "enter"
    /\ NumEmpty(Top.self) > 0
    /\ check_rows(Top.self)
    /\ check_columns(Top.self)
    /\ ~check(Top.self)

\* -------------------------------------------------------------------- C4
\* C4: on a board with a duplicate (check false) solve and solvable report
\* no solution from the outermost activation alone: no digit is placed and
\* no recursive call is made.
C4_InvalidFailsAtOnce ==
    (Finished /\ (~check(orig) \/ ~NoDuplicate(orig))) =>
        /\ ~Found
        /\ result = None
        /\ calls = 1
        /\ placed = 0

\* an invalid board with empty cells, where a search could have started
C4_Witness ==
    /\ Finished
    /\ ~check(orig)
    /\ NumEmpty(orig) > 0

\* -------------------------------------------------------------------- C5
\* C5: solve and solvable leave the caller's board as it was, whatever they
\* return; and an activation that returns None leaves the board of the
\* activation that called it as it was, so that board differs from the one
\* the next trial starts from in no cell but the trial cell.
C5_StepKeepsCallerBoard ==
    /\ mode = "running" => board' = board
    /\ (mode = "running" /\ mode' = "done") => board' = orig
    /\ (mode = "running" /\ Len(stack') < Len(stack) /\ Len(stack') >= 1) =>
           stack'[Len(stack')].self = stack[Len(stack')].self

C5_CallerBoardKept == [][C5_StepKeepsCallerBoard]_vars

\* a recursive call that had itself placed digits has failed, and its
\* caller goes on to a later digit
C5_Witness ==
    /\ mode = "running"
    /\ Top.pc = "wait"
    /\ ~IsSome(ret)
    /\ calls > Depth + MaxDigit
    /\ board = orig

\* -------------------------------------------------------------------- C6
\* C6: solve of a full board without duplicate returns that board, cell for
\* cell; so solve of a board that solve returned returns it again.
C6_Idempotent ==
    (mode = "done" /\ lastOp.op = "solve") =>
        /\ (Full(orig) /\ NoDuplicate(orig)) => result = Some(orig)
        /\ fresh => result = Some(board)

\* the caller solved a board with empty cells, kept the solution and
\* solved it again
C6_Witness ==
    /\ mode = "done"
    /\ lastOp.op = "solve"
    /\ fresh
    /\ IsSome(result)
    /\ Unwrap(result) # Seed

\* -------------------------------------------------------------------- C7
\* C7: set(row, col, v) with v in 0..9 makes the cell (row, col) empty when
\* v = 0 and the digit v otherwise, and changes no other cell; a cell set to
\* 5 and then to 0 is empty.  Stated of set applied to every cell of every
\* board the caller starts from or keeps from solve, and of every set call
\* made.
SetEffect(b, b2, row, col, v) ==
    /\ b2[row][col] = (IF v = 0 THEN None ELSE Some(v))
    /\ \A r \in Idx : \A c \in Idx :
           (r # row \/ c # col) => b2[r][c] = b[r][c]

C7_SetOneCell ==
    /\ (mode = "idle" /\ lastOp.op \in {"new", "adopt"}) =>
           \A row \in Idx : \A col \in Idx : \A v \in 0 .. MaxDigit :
               /\ ~From_u8(v).panic
               /\ SetEffect(board, set(board, row, col, From_u8(v).cell),
                            row, col, v)
    /\ (mode = "idle" /\ lastOp.op \in {"new", "adopt"}) =>
           \A row \in Idx : \A col \in Idx :
               set(set(board, row, col, From_u8(5).cell),
                   row, col, From_u8(0).cell)[row][col] = None
    /\ (lastOp.op = "set" /\ lastOp.raw <= MaxDigit) =>
           SetEffect(orig, board, lastOp.row, lastOp.col, lastOp.raw)

\* set has cleared a cell that held a digit
C7_Witness ==
    /\ lastOp.op = "set"
    /\ lastOp.raw = 0
    /\ mode = "idle"
    /\ orig[lastOp.row][lastOp.col] # None
    /\ board[lastOp.row][lastOp.col] = None

\* -------------------------------------------------------------------- C8
\* C8: set_pos(pos, v) gives the board set(pos / 9, pos % 9, v) gives; each
\* pos in 0..80 touches one cell, two pos never the same one, and together
\* they touch all 81 cells.  Stated of set_pos applied at every pos to every
\* board the caller starts from or keeps from solve, and of every set_pos
\* call made.
Touched(pos) ==
    LET b2 == set_pos(Default, pos, Some(1))
    IN  {rc \in Idx \X Idx : b2[rc[1]][rc[2]] # None}

\* the addressing of set_pos: it depends on no state
SetPosAddressing ==
    LET touched == [pos \in Positions |-> Touched(pos)]
    IN  /\ \A pos \in Positions : Cardinality(touched[pos]) = 1
        /\ \A pos \in Positions : \A pos2 \in Positions :
               pos # pos2 => touched[pos] # touched[pos2]
        /\ UNION {touched[pos] : pos \in Positions} = Idx \X Idx

C8_SetPosIsSet ==
    /\ (mode = "idle" /\ lastOp.op \in {"new", "adopt"}) =>
           \A pos \in Positions : \A v \in 0 .. MaxDigit :
               set_pos(board, pos, From_u8(v).cell)
                   = set(board, pos \div 9, pos % 9, From_u8(v).cell)
    /\ SetPosAddressing
    /\ (lastOp.op = "set_pos" /\ lastOp.raw <= MaxDigit) =>
           board = set(orig, lastOp.pos \div 9, lastOp.pos % 9,
                       From_u8(lastOp.raw).cell)

\* set_pos has written a digit into a cell of the last row
C8_Witness ==
    /\ lastOp.op = "set_pos"
    /\ lastOp.pos = 74
    /\ lastOp.raw \in Digits
    /\ mode = "idle"
    /\ board # orig
    /\ board[8][2] = Some(lastOp.raw)

\* -------------------------------------------------------------------- C9
\* C9: a raw digit above 9 makes the conversion panic; the write that was to
\* follow does not happen, so the board is as it was; and every cell of
\* every board is empty or a digit 1..9.
CellOK(c) == c = None \/ \E d \in Digits : c = Some(d)

BoardOK(b) == \A row \in Idx : \A col \in Idx : CellOK(b[row][col])

C10_DepthBound ==
    mode = "running" =>
        /\ Depth <= NumEmpty(orig) + 1
        /\ stack[1].empties_in = NumEmpty(orig)
        /\ \A i \in 2 .. Depth :
               stack[i].empties_in = stack[i - 1].empties_in - 1
        /\ Top.empties_in >= 0

C10_Terminates == []C10_DepthBound /\ ((mode = "running") ~> (mode = "done"))

\* the recursion is as deep as it can get: one activation per empty cell
\* of the empty board, and one more
C10_Witness ==
    /\ mode = "running"
    /\ orig = Default
    /\ Depth = N * N + 1

\* -------------------------------------------------------------------- C11
\* the digit a full board holds at row-major index p
DigitAt(b, p) == Unwrap(Cell(b, p))

\* full board s comes before full board t when both are read as sequences
\* of 81 digits in row-major order
LexLess(s, t) ==
    \E p \in Positions :
        /\ DigitAt(s, p) < DigitAt(t, p)
        /\ \A q \in 0 .. (p - 1) : DigitAt(s, q) = DigitAt(t, q)

\* C11: every activation branches on the first empty cell in row-major
\* order and holds in it the digit of its round, rounds going 1, 2, ..., 9;
\* so the board S that solve(B) returns is the smallest completion of B: no
\* full board without duplicate keeping the digits of B comes before S in
\* row-major order.  The completions are enumerated for boards with at most
\* MaxCleared + MaxEdits empty cells; of the others (the empty board) one
\* completion is known, the seed grid, and S does not come after it.
C11_SmallestCompletion ==
    /\ (mode = "running" /\ Top.pc \in {"loop", "wait"}) =>
           /\ \A p \in 0 .. (Unwrap(Top.next_cell) - 1) :
                  Cell(Top.self, p) # None
           /\ Cell(orig, Unwrap(Top.next_cell)) = None
           /\ Top.pc = "wait" =>
                  Cell(Top.self, Unwrap(Top.next_cell)) = Some(Top.number)
    /\ (mode = "done" /\ lastOp.op = "solve" /\ IsSome(result)) =>
           /\ Enumerable(orig) =>
                  /\ Unwrap(result) \in Completions(orig)
                  /\ \A s \in Completions(orig) : ~LexLess(s, Unwrap(result))
           /\ (Full(Seed) /\ NoDuplicate(Seed) /\ Extends(Seed, orig)) =>
                  ~LexLess(Seed, Unwrap(result))

\* solve has returned a board for a board with more than one completion,
\* and another completion comes after the board returned
C11_Witness ==
    /\ mode = "done"
    /\ lastOp.op = "solve"
    /\ IsSome(result)
    /\ Enumerable(orig)
    /\ Cardinality(Completions(orig)) > 1
    /\ \E s \in Completions(orig) : LexLess(Unwrap(result), s)

====
